---- MODULE Spec2Model ----
(***************************************************************************)
(* GateIoWebSocketClient, the balance-aware client with auto-reconnect     *)
(* (src/unnamed/part_001).  One session object; every socket event and     *)
(* every timer callback is one atomic step (Node.js runs handlers          *)
(* serially).  A promise rejection that is awaited in the reconnect timer  *)
(* callback runs its catch block as a microtask, i.e. at the end of the    *)
(* step that rejected.                                                     *)
(*                                                                         *)
(* Timers: the armed timers are kept in the order in which they were       *)
(* armed, each with its duration.  A timer that was armed earlier with a   *)
(* duration that is not longer fires first, so a timer may fire only when  *)
(* every timer armed before it has a strictly longer duration.  Transport  *)
(* events are not timed.                                                   *)
(*                                                                         *)
(* The transport (the "ws" package) is the environment: a socket is        *)
(* connecting, open, closing (the session called close() on it), errored   *)
(* (it emitted "error"; only "close" can follow) or closed.  A handshake   *)
(* fails by "error" followed by "close".  send() throws on a connecting    *)
(* socket, transmits on an open one and silently drops the frame           *)
(* otherwise; close() on a connecting socket aborts the handshake (no open *)
(* event can follow).  Frames arrive on open and closing sockets.  The     *)
(* exchange answers only requests that were transmitted to it; it may send *)
(* server.ping frames with any id on its own initiative.                   *)
(***************************************************************************)
EXTENDS Integers, FiniteSets, Sequences, TLC

\* ---------------------------------------------------------------- bounds
MaxSockets == 2
MaxRequests == 2
MaxSubs == 1
MaxClock == 3

\* ------------------------------------------------------ program constants
maxReconnectAttempts == 10
reconnectDelay == 1000
maxReconnectDelay == 30000
connectTimeoutMs == 10000
settleDelayMs == 3000
pingIntervalMs == 30000
balanceIntervalMs == 30000
initialSubscribeMs == 5000
pongTimeoutMs == 10000
\* the simple variant (src/unnamed/part_002); its connect guard is the same
\* 10000 ms
simple_settleDelayMs == 3000
firstPingDelayMs == 3000
simple_pingIntervalMs == 15000
simple_pongTimeoutMs == 10000
\* Durations are kept in units of 1/512 ms, so that 1000 * 1.5^(k-1) is an
\* exact integer for every attempt number k = 1..10.
DelayScale == 512

Sockets == 1..MaxSockets
Ids == 1..MaxRequests

Min(a, b) == IF a <= b THEN a ELSE b

RECURSIVE Pow(_, _)
Pow(b, e) == IF e <= 0 THEN 1 ELSE b * Pow(b, e - 1)

\* Math.min(reconnectDelay * Math.pow(1.5, attempts - 1), maxReconnectDelay)
Backoff(attempts) ==
    Min(reconnectDelay * Pow(3, attempts - 1) * Pow(2, 9 - (attempts - 1)),
        maxReconnectDelay * DelayScale)

VARIABLES
    ws,                 \* this.ws: the socket the session refers to
    sock,               \* readyState of every socket created so far
    nsock,              \* number of sockets created (new WebSocket calls)
    connProm,           \* per socket: the promise returned by its connect()
                        \* (socket 1: this.connectionPromise)
    origin,             \* per socket: who called connect() ("ctor" | "timer")
    timers,             \* the armed timers, in the order they were armed
    isConnected, isAuthenticated, isReconnecting, reconnectAttempts,
    reconnectInterval,  \* handle of the last backoff timer (0 = null)
    nTimers,            \* number of backoff timers created
    pingInterval,       \* handle (0 = null); a timer is named by its socket
    balanceInterval,    \* handle (0 = null)
    requestId,
    pendingRequests,    \* Map: id -> entry
    waiters,            \* the promises returned by sendPing
    sentOn,             \* per ping id: the socket on which the exchange has
                        \* received it and not answered it yet (0 = none)
    subs,               \* per socket: subscribe requests awaiting their ack
    pongs,              \* the pong frames transmitted by the last handler run
    now,                \* Date.now()
    sentAt,             \* history: per ping id, the clock value at its sending
    closeCalled,        \* close() has been called
    closeWait,          \* socket on which close() registered its resolver
    closeResolved,      \* the promise returned by close() has resolved
    doneBeforeClose,    \* history: waiters settled before close() was called
    authFailed,         \* history: a code-1 subscribe ack has been handled
    lastDelay,          \* history: delay of the last scheduled reconnect
    failures,           \* history: connect() promises rejected since last open
    schedules,          \* history: reconnects scheduled since last open
    usedBefore          \* history: reconnectAttempts just before the last open

vars == << ws, sock, nsock, connProm, origin, timers,
           isConnected, isAuthenticated, isReconnecting, reconnectAttempts,
           reconnectInterval, nTimers, pingInterval, balanceInterval,
           requestId, pendingRequests, waiters, sentOn, subs,
           pongs, now, sentAt,
           closeCalled, closeWait, closeResolved, doneBeforeClose,
           authFailed, lastDelay, failures, schedules, usedBefore >>

\* The session as one record, so that a handler is the composition of the
\* methods it calls, in the order of the source.  A handler starts with
\* nothing transmitted yet.
S == [ ws |-> ws, sock |-> sock, nsock |-> nsock, connProm |-> connProm,
       origin |-> origin, timers |-> timers,
       isConnected |-> isConnected, isAuthenticated |-> isAuthenticated,
       isReconnecting |-> isReconnecting,
       reconnectAttempts |-> reconnectAttempts,
       reconnectInterval |-> reconnectInterval, nTimers |-> nTimers,
       pingInterval |-> pingInterval, balanceInterval |-> balanceInterval,
       requestId |-> requestId, pendingRequests |-> pendingRequests,
       waiters |-> waiters, sentOn |-> sentOn, subs |-> subs,
       pongs |-> << >>, now |-> now, sentAt |-> sentAt,
       closeCalled |-> closeCalled, closeWait |-> closeWait,
       closeResolved |-> closeResolved, doneBeforeClose |-> doneBeforeClose,
       authFailed |-> authFailed,
       lastDelay |-> lastDelay, failures |-> failures,
       schedules |-> schedules, usedBefore |-> usedBefore ]

Apply(s) ==
    /\ ws' = s.ws /\ sock' = s.sock /\ nsock' = s.nsock
    /\ connProm' = s.connProm /\ origin' = s.origin /\ timers' = s.timers
    /\ isConnected' = s.isConnected /\ isAuthenticated' = s.isAuthenticated
    /\ isReconnecting' = s.isReconnecting
    /\ reconnectAttempts' = s.reconnectAttempts
    /\ reconnectInterval' = s.reconnectInterval /\ nTimers' = s.nTimers
    /\ pingInterval' = s.pingInterval /\ balanceInterval' = s.balanceInterval
    /\ requestId' = s.requestId /\ pendingRequests' = s.pendingRequests
    /\ waiters' = s.waiters /\ sentOn' = s.sentOn /\ subs' = s.subs
    /\ pongs' = s.pongs /\ now' = s.now /\ sentAt' = s.sentAt
    /\ closeCalled' = s.closeCalled /\ closeWait' = s.closeWait
    /\ closeResolved' = s.closeResolved /\ authFailed' = s.authFailed
    /\ doneBeforeClose' = s.doneBeforeClose
    /\ lastDelay' = s.lastDelay /\ failures' = s.failures
    /\ schedules' = s.schedules /\ usedBefore' = s.usedBefore

\* ------------------------------------------------------------- timers
\* setTimeout / setInterval
Arm(q, kind, id, d) == Append(q, [kind |-> kind, id |-> id, d |-> d])
\* clearTimeout / clearInterval, and the removal of a timer that fires
Cancel(q, kind, id) == SelectSeq(q, LAMBDA e : ~(e.kind = kind /\ e.id = id))
Armed(q, kind) == {q[i].id : i \in {j \in 1..Len(q) : q[j].kind = kind}}
\* the timer may fire now
Due(q, kind, id) ==
    \E i \in 1..Len(q) :
        /\ q[i].kind = kind /\ q[i].id = id
        /\ \A j \in 1..(i - 1) : q[j].d > q[i].d

connectionTimeout == Armed(timers, "connect")
settle == Armed(timers, "settle")
rTimers == Armed(timers, "backoff")
pingTimers == Armed(timers, "ping")
balTimers == Armed(timers, "balance")
subTimers == Armed(timers, "subscribe")
pongTimers == Armed(timers, "pong")

NoFrame == [id |-> 0, result |-> "none", error |-> 0, channel |-> "none",
            event |-> "none", method |-> "none"]
NoWaiter == [st |-> "none", frame |-> NoFrame, val |-> << "none", 0 >>]

\* Map operations on pendingRequests
MapSet(m, k, v) == [x \in (DOMAIN m) \cup {k} |-> IF x = k THEN v ELSE m[x]]
MapDelete(m, k) == [x \in (DOMAIN m) \ {k} |-> m[x]]
EmptyMap == [x \in {} |-> [waiter |-> 0, timestamp |-> 0]]

\* resolve()/reject() of a promise: only the first settlement counts
Settle(w, i, st, frame, val) ==
    IF i \in DOMAIN w /\ w[i].st = "pending"
    THEN [w EXCEPT ![i] = [st |-> st, frame |-> frame, val |-> val]]
    ELSE w

\* ------------------------------------------------------------- methods

\* (mutant) scheduleReconnect does not look at the attempt counter
scheduleReconnect_unbounded(s) ==
    IF s.isReconnecting
    THEN s
    ELSE LET k == s.reconnectAttempts + 1
             t == s.nTimers + 1
         IN [s EXCEPT !.isReconnecting = TRUE,
                      !.reconnectAttempts = k,
                      !.lastDelay = Backoff(k),
                      !.reconnectInterval = t,
                      !.timers = Arm(@, "backoff", t, Backoff(k)),
                      !.nTimers = t,
                      !.schedules = @ + 1]

scheduleReconnect(s) ==
    IF s.isReconnecting \/ s.reconnectAttempts >= maxReconnectAttempts
    THEN s
    ELSE LET k == s.reconnectAttempts + 1
             t == s.nTimers + 1
         IN [s EXCEPT !.isReconnecting = TRUE,
                      !.reconnectAttempts = k,
                      !.lastDelay = Backoff(k),
                      !.reconnectInterval = t,
                      !.timers = Arm(@, "backoff", t, Backoff(k)),
                      !.nTimers = t,
                      !.schedules = @ + 1]

stopIntervals(s) ==
    LET s1 == IF s.pingInterval # 0
              THEN [s EXCEPT !.timers = Cancel(@, "ping", s.pingInterval),
                             !.pingInterval = 0]
              ELSE s
    IN IF s1.balanceInterval # 0
       THEN [s1 EXCEPT !.timers = Cancel(@, "balance", s1.balanceInterval),
                       !.balanceInterval = 0]
       ELSE s1

\* (mutant) the fatal state is recorded but the timer is left armed
stopReconnection_keepsTimer(s) ==
    [s EXCEPT !.reconnectInterval = 0,
              !.isReconnecting = FALSE,
              !.reconnectAttempts = maxReconnectAttempts]

stopReconnection(s) ==
    LET s1 == IF s.reconnectInterval # 0
              THEN [s EXCEPT !.timers = Cancel(@, "backoff", s.reconnectInterval),
                             !.reconnectInterval = 0]
              ELSE s
    IN [s1 EXCEPT !.isReconnecting = FALSE,
                  !.reconnectAttempts = maxReconnectAttempts]

RECURSIVE RejectEach(_, _, _, _)
RejectEach(w, pend, keys, err) ==
    IF keys = {} THEN w
    ELSE LET k == CHOOSE x \in keys : TRUE
         IN RejectEach(Settle(w, pend[k].waiter, "rejected", NoFrame, << err, 0 >>),
                       pend, keys \ {k}, err)

rejectAllPendingRequests(s, err) ==
    [s EXCEPT !.waiters = RejectEach(s.waiters, s.pendingRequests,
                                     DOMAIN s.pendingRequests, err),
              !.pendingRequests = EmptyMap]

\* (mutant) a disconnect leaves the pending requests where they are
handleDisconnection_keepsPending(s) ==
    LET s1 == [s EXCEPT !.isConnected = FALSE, !.isAuthenticated = FALSE]
        s2 == stopIntervals(s1)
    IN IF ~s2.isReconnecting THEN scheduleReconnect(s2) ELSE s2

handleDisconnection(s) ==
    LET s1 == [s EXCEPT !.isConnected = FALSE, !.isAuthenticated = FALSE]
        s2 == stopIntervals(s1)
        s3 == rejectAllPendingRequests(s2, "Connection lost")
    IN IF ~s3.isReconnecting THEN scheduleReconnect(s3) ELSE s3

\* (mutant) every new connection numbers its requests from 1 again
connect_resetsIds(s, who) ==
    LET n == s.nsock + 1
    IN [s EXCEPT !.ws = n, !.nsock = n,
                 !.sock = [@ EXCEPT ![n] = "connecting"],
                 !.timers = Arm(@, "connect", n, connectTimeoutMs * DelayScale),
                 !.connProm = [@ EXCEPT ![n] = "pending"],
                 !.origin = [@ EXCEPT ![n] = who],
                 !.requestId = 1]

\* new WebSocket(...) and the arming of its connect guard
connect(s, who) ==
    LET n == s.nsock + 1
    IN [s EXCEPT !.ws = n, !.nsock = n,
                 !.sock = [@ EXCEPT ![n] = "connecting"],
                 !.timers = Arm(@, "connect", n, connectTimeoutMs * DelayScale),
                 !.connProm = [@ EXCEPT ![n] = "pending"],
                 !.origin = [@ EXCEPT ![n] = who]]

\* How a connect() promise settles.  Only this.connectionPromise (socket 1)
\* is kept and awaited by callers; the promise of a reconnect is seen by the
\* catch block of the timer callback alone, at the moment it is rejected.
Settled(n, how) == IF n = 1 THEN how ELSE "settled"

\* reject(...) of the promise of socket n's connect()
rejectConnect(s, n) ==
    IF s.connProm[n] = "pending"
    THEN [s EXCEPT !.connProm = [@ EXCEPT ![n] = Settled(n, "rejected")],
                   !.failures = @ + 1]
    ELSE s

\* The reconnect timer callback awaits the promise of its connect(): its
\* catch block calls scheduleReconnect when that promise is rejected.
catchReconnect(s, n, wasPending) ==
    IF wasPending /\ s.origin[n] = "timer" THEN scheduleReconnect(s) ELSE s

\* ws.send(): throws while connecting, transmits when open, drops otherwise
SendThrows(s) == s.sock[s.ws] = "connecting"
Transmits(s) == s.sock[s.ws] = "open"

\* (mutant) sendPing stores the entry and keeps the counter where it is
sendPing_keepsId(s) ==
    IF ~s.isConnected \/ s.ws = 0 THEN s
    ELSE IF SendThrows(s) THEN s
    ELSE LET id == s.requestId
         IN [s EXCEPT !.pendingRequests =
                          MapSet(@, id, [waiter |-> id, timestamp |-> s.now]),
                      !.sentAt = [@ EXCEPT ![id] = s.now],
                      !.waiters = [@ EXCEPT ![id] =
                                     [st |-> "pending", frame |-> NoFrame,
                                      val |-> << "none", 0 >>]],
                      !.sentOn = IF Transmits(s)
                                 THEN [@ EXCEPT ![id] = s.ws]
                                 ELSE @,
                      !.timers = Arm(@, "pong", id, pongTimeoutMs * DelayScale)]

sendPing(s) ==
    IF ~s.isConnected \/ s.ws = 0 THEN s
    ELSE IF SendThrows(s) THEN s   \* entry set, send throws, entry deleted
    ELSE LET id == s.requestId
         IN [s EXCEPT !.pendingRequests =
                          MapSet(@, id, [waiter |-> id, timestamp |-> s.now]),
                      !.sentAt = [@ EXCEPT ![id] = s.now],
                      !.waiters = [@ EXCEPT ![id] =
                                     [st |-> "pending", frame |-> NoFrame,
                                      val |-> << "none", 0 >>]],
                      !.sentOn = IF Transmits(s)
                                 THEN [@ EXCEPT ![id] = s.ws]
                                 ELSE @,
                      !.timers = Arm(@, "pong", id, pongTimeoutMs * DelayScale),
                      !.requestId = id + 1]

\* sendPing would allocate an id
AllocatesId(s) == s.isConnected /\ s.ws # 0 /\ ~SendThrows(s)

subscribeToBalances(s) ==
    IF ~s.isConnected \/ s.ws = 0 THEN s
    ELSE IF Transmits(s)
         THEN [s EXCEPT !.subs = [@ EXCEPT ![s.ws] = @ + 1]]
         ELSE s

SubscribeTransmits(s) == s.isConnected /\ s.ws # 0 /\ Transmits(s)

startPingInterval(s, n) ==
    LET s1 == sendPing(s)
    IN [s1 EXCEPT !.pingInterval = n,
                  !.timers = Arm(@, "ping", n, pingIntervalMs * DelayScale)]

startBalanceInterval(s, n) ==
    [s EXCEPT !.balanceInterval = n,
              !.timers = Arm(Arm(@, "subscribe", n, initialSubscribeMs * DelayScale),
                             "balance", n, balanceIntervalMs * DelayScale)]

\* ------------------------------------------------------------- frames
Pong(i) == [NoFrame EXCEPT !.id = i, !.result = "pong"]
Result(i) == [NoFrame EXCEPT !.id = i, !.result = "r"]
ApiError(i) == [NoFrame EXCEPT !.id = i, !.error = 2]
SubAck(code) == [NoFrame EXCEPT !.channel = "spot.balances",
                                !.event = "subscribe", !.error = code]
ServerPing(i) == [NoFrame EXCEPT !.id = i, !.method = "server.ping"]

\* ws.send() of sendPong throws on a connecting socket; the throw is caught
sendPong(s, pingId) ==
    IF ~s.isConnected \/ s.ws = 0 THEN s
    ELSE IF Transmits(s)
         THEN [s EXCEPT !.pongs = Append(@, [NoFrame EXCEPT !.id = pingId,
                                                            !.result = "pong"])]
         ELSE s

\* (mutant) a response completes the oldest pending request
handleMessage_byArrival(s, m) ==
    IF m.id # 0 /\ m.id \in DOMAIN s.pendingRequests
    THEN LET k == CHOOSE x \in DOMAIN s.pendingRequests :
                      \A y \in DOMAIN s.pendingRequests : x <= y
             e == s.pendingRequests[k]
         IN [s EXCEPT !.waiters =
                        IF m.result = "pong"
                        THEN Settle(@, e.waiter, "resolved", m, << "latency", 0 >>)
                        ELSE IF m.error # 0
                        THEN Settle(@, e.waiter, "rejected", m,
                                    << "API Error", m.error >>)
                        ELSE Settle(@, e.waiter, "resolved", m,
                                    << m.result, 0 >>),
                      !.pendingRequests = MapDelete(@, k)]
    ELSE s

\* (mutant) an error response is taken for the loss of the connection
handleMessage_escalates(s, m) ==
    IF m.id # 0 /\ m.id \in DOMAIN s.pendingRequests /\ m.error # 0
    THEN handleDisconnection(s)
    ELSE s

\* (mutant) the latency of a pong is taken from the newest pending entry
handleMessage_newestTimestamp(s, m) ==
    IF m.id # 0 /\ m.id \in DOMAIN s.pendingRequests /\ m.result = "pong"
    THEN LET e == s.pendingRequests[m.id]
             k == CHOOSE x \in DOMAIN s.pendingRequests :
                      \A y \in DOMAIN s.pendingRequests : x >= y
         IN [s EXCEPT !.waiters = Settle(@, e.waiter, "resolved", m,
                           << "latency", s.now - s.pendingRequests[k].timestamp >>),
                      !.pendingRequests = MapDelete(@, m.id)]
    ELSE s

handleMessage(s, m) ==
    IF m.id # 0 /\ m.id \in DOMAIN s.pendingRequests /\ m.result = "pong"
    THEN LET e == s.pendingRequests[m.id]
         IN [s EXCEPT !.waiters = Settle(@, e.waiter, "resolved", m,
                                         << "latency", s.now - e.timestamp >>),
                      !.pendingRequests = MapDelete(@, m.id)]
    ELSE IF m.id # 0 /\ m.id \in DOMAIN s.pendingRequests
    THEN LET e == s.pendingRequests[m.id]
         IN [s EXCEPT !.waiters =
                        IF m.error # 0
                        THEN Settle(@, e.waiter, "rejected", m,
                                    << "API Error", m.error >>)
                        ELSE Settle(@, e.waiter, "resolved", m,
                                    << m.result, 0 >>),
                      !.pendingRequests = MapDelete(@, m.id)]
    ELSE IF m.channel = "spot.balances" /\ m.event = "update"
    THEN s
    ELSE IF m.channel = "spot.balances" /\ m.event = "subscribe"
    THEN IF m.error # 0
         THEN LET s1 == [s EXCEPT !.isAuthenticated = FALSE]
              IN IF m.error = 1
                 THEN [stopReconnection(s1) EXCEPT !.authFailed = TRUE]
                 ELSE s1
         ELSE [s EXCEPT !.isAuthenticated = TRUE]
    ELSE IF m.method = "server.ping" /\ m.id # 0
    THEN sendPong(s, m.id)
    ELSE s

\* ------------------------------------------------------------- actions

Init ==
    /\ ws = 1 /\ nsock = 1
    /\ sock = [n \in Sockets |-> IF n = 1 THEN "connecting" ELSE "none"]
    /\ timers = << [kind |-> "connect", id |-> 1,
                    d |-> connectTimeoutMs * DelayScale] >>
    /\ connProm = [n \in Sockets |-> IF n = 1 THEN "pending" ELSE "none"]
    /\ origin = [n \in Sockets |-> IF n = 1 THEN "ctor" ELSE "none"]
    /\ isConnected = FALSE /\ isAuthenticated = FALSE
    /\ isReconnecting = FALSE /\ reconnectAttempts = 0
    /\ reconnectInterval = 0 /\ nTimers = 0
    /\ pingInterval = 0 /\ balanceInterval = 0
    /\ requestId = 1 /\ pendingRequests = EmptyMap
    /\ waiters = [i \in Ids |-> NoWaiter]
    /\ sentOn = [i \in Ids |-> 0]
    /\ subs = [n \in Sockets |-> 0]
    /\ pongs = << >> /\ now = 0 /\ sentAt = [i \in Ids |-> 0]
    /\ closeCalled = FALSE /\ closeWait = 0 /\ closeResolved = FALSE
    /\ doneBeforeClose = {}
    /\ authFailed = FALSE /\ lastDelay = 0 /\ failures = 0 /\ schedules = 0
    /\ usedBefore = -1

\* (mutant) the open handler leaves the attempt counter as it is
OnOpen_keepsAttempts(n) ==
    /\ sock[n] = "connecting"
    /\ Apply([S EXCEPT !.sock = [@ EXCEPT ![n] = "open"],
                       !.timers = Arm(Cancel(@, "connect", n), "settle", n,
                                      settleDelayMs * DelayScale),
                       !.isConnected = TRUE,
                       !.isReconnecting = FALSE,
                       !.usedBefore = S.reconnectAttempts,
                       !.failures = 0, !.schedules = 0])

\* (mutant) the open handler leaves the connect guard armed
OnOpen_keepsGuard(n) ==
    /\ sock[n] = "connecting"
    /\ Apply([S EXCEPT !.sock = [@ EXCEPT ![n] = "open"],
                       !.timers = Arm(@, "settle", n, settleDelayMs * DelayScale),
                       !.isConnected = TRUE,
                       !.isReconnecting = FALSE,
                       !.reconnectAttempts = 0,
                       !.usedBefore = S.reconnectAttempts,
                       !.failures = 0, !.schedules = 0])

\* ws.on("open"): up to the await of delay(3000)
OnOpen(n) ==
    /\ sock[n] = "connecting"
    /\ Apply([S EXCEPT !.sock = [@ EXCEPT ![n] = "open"],
                       !.timers = Arm(Cancel(@, "connect", n), "settle", n,
                                      settleDelayMs * DelayScale),
                       !.isConnected = TRUE,
                       !.isReconnecting = FALSE,
                       !.reconnectAttempts = 0,
                       !.usedBefore = S.reconnectAttempts,
                       !.failures = 0, !.schedules = 0])

\* the continuation of the open handler after delay(3000)
AfterSettle(n) ==
    /\ Due(timers, "settle", n)
    /\ AllocatesId(S) => requestId <= MaxRequests
    /\ LET s0 == [S EXCEPT !.timers = Cancel(@, "settle", n)]
           s1 == startPingInterval(s0, n)
           s2 == startBalanceInterval(s1, n)
       IN Apply([s2 EXCEPT !.connProm =
                   [@ EXCEPT ![n] = IF @ = "pending"
                                    THEN Settled(n, "resolved") ELSE @]])

\* the 10s connectionTimeout of socket n fires
OnConnectTimeout(n) ==
    /\ Due(timers, "connect", n)
    /\ LET s0 == [S EXCEPT !.timers = Cancel(@, "connect", n)]
           s1 == rejectConnect(s0, n)
           s2 == scheduleReconnect(s1)
       IN Apply(catchReconnect(s2, n, S.connProm[n] = "pending"))

\* ws.on("error")
OnError(n) ==
    /\ sock[n] \in {"connecting", "open", "closing"}
    /\ LET s0 == [S EXCEPT !.sock = [@ EXCEPT ![n] = "errored"],
                           !.timers = Cancel(@, "connect", n)]
           s1 == handleDisconnection(s0)
           s2 == rejectConnect(s1, n)
       IN Apply(catchReconnect(s2, n, S.connProm[n] = "pending"))

\* ws.on("close"): the handler of connect(), then the resolver of close()
OnClose(n) ==
    /\ sock[n] \in {"open", "closing", "errored"}
    /\ LET s0 == [S EXCEPT !.sock = [@ EXCEPT ![n] = "closed"],
                           !.timers = Cancel(@, "connect", n),
                           !.sentOn = [i \in Ids |-> IF @[i] = n THEN 0 ELSE @[i]],
                           !.subs = [@ EXCEPT ![n] = 0]]
           s1 == handleDisconnection(s0)
       IN Apply(IF s1.closeWait = n
                THEN [s1 EXCEPT !.closeResolved = TRUE]
                ELSE s1)

\* the backoff timer t fires: await this.connect()
OnReconnectTimer(t) ==
    /\ Due(timers, "backoff", t)
    /\ nsock < MaxSockets
    /\ Apply(connect([S EXCEPT !.timers = Cancel(@, "backoff", t)], "timer"))

\* a tick of a running ping setInterval
OnPingInterval(n) ==
    /\ Due(timers, "ping", n)
    /\ AllocatesId(S) => requestId <= MaxRequests
    /\ LET s0 == [S EXCEPT !.timers = Arm(Cancel(@, "ping", n), "ping", n,
                                          pingIntervalMs * DelayScale)]
       IN Apply(IF s0.isConnected /\ s0.ws # 0 THEN sendPing(s0) ELSE s0)

\* the untracked 5s timer of startBalanceInterval fires
OnSubscribeTimer(n) ==
    /\ Due(timers, "subscribe", n)
    /\ SubscribeTransmits(S) => subs[ws] < MaxSubs
    /\ Apply(subscribeToBalances([S EXCEPT !.timers = Cancel(@, "subscribe", n)]))

\* a tick of a running balance setInterval; the subscription is refreshed
\* when more than 120s have passed since the open
OnBalanceInterval(n, refresh) ==
    /\ Due(timers, "balance", n)
    /\ (refresh /\ isAuthenticated /\ SubscribeTransmits(S)) => subs[ws] < MaxSubs
    /\ LET s0 == [S EXCEPT !.timers = Arm(Cancel(@, "balance", n), "balance", n,
                                          balanceIntervalMs * DelayScale)]
       IN Apply(IF s0.isConnected /\ s0.ws # 0 /\ s0.isAuthenticated /\ refresh
                THEN subscribeToBalances(s0) ELSE s0)

\* the 10s timeout of the ping of waiter w fires
OnPongTimeout(w) ==
    /\ Due(timers, "pong", w)
    /\ LET s0 == [S EXCEPT !.timers = Cancel(@, "pong", w)]
       IN Apply(IF s0.requestId \in DOMAIN s0.pendingRequests
                THEN [s0 EXCEPT !.pendingRequests = MapDelete(@, s0.requestId),
                                !.waiters = Settle(@, w, "rejected", NoFrame,
                                                   << "PONG timeout", s0.requestId >>)]
                ELSE s0)

\* ws.on("message"): the exchange answers a transmitted ping
OnResponse(n, i, kind) ==
    /\ sock[n] \in {"open", "closing"}
    /\ sentOn[i] = n
    /\ LET m == CASE kind = "pong" -> Pong(i)
                  [] kind = "result" -> Result(i)
                  [] OTHER -> ApiError(i)
       IN Apply(handleMessage([S EXCEPT !.sentOn = [@ EXCEPT ![i] = 0]], m))

\* ws.on("message"): the ack of a transmitted subscribe request
OnSubscribeAck(n, code) ==
    /\ sock[n] \in {"open", "closing"}
    /\ subs[n] > 0
    /\ Apply(handleMessage([S EXCEPT !.subs = [@ EXCEPT ![n] = @ - 1]], SubAck(code)))

\* ws.on("message"): an exchange-initiated probe
OnServerPing(n, i) ==
    /\ sock[n] \in {"open", "closing"}
    /\ Apply(handleMessage(S, ServerPing(i)))

\* the clock advances
Tick ==
    /\ now < MaxClock
    /\ Apply([S EXCEPT !.now = @ + 1])

\* close(), called once by the owner of the session
Close ==
    /\ ~closeCalled
    /\ LET s1 == stopIntervals(S)
           s2 == stopReconnection(s1)
           s3 == rejectAllPendingRequests(s2, "Connection closed by user")
       IN Apply([s3 EXCEPT !.closeCalled = TRUE,
                           !.doneBeforeClose =
                               {i \in Ids : S.waiters[i].st \in {"resolved", "rejected"}},
                           !.closeWait = s3.ws,
                           !.closeResolved = (s3.ws = 0),
                           !.sock = [@ EXCEPT ![s3.ws] =
                                       IF @ \in {"connecting", "open"}
                                       THEN "closing" ELSE @]])

Next ==
    \/ \E n \in Sockets : OnOpen(n)
    \/ \E n \in Sockets : AfterSettle(n)
    \/ \E n \in Sockets : OnConnectTimeout(n)
    \/ \E n \in Sockets : OnError(n)
    \/ \E n \in Sockets : OnClose(n)
    \/ \E t \in 1..(MaxSockets + 1) : OnReconnectTimer(t)
    \/ \E n \in Sockets : OnPingInterval(n)
    \/ \E n \in Sockets : OnSubscribeTimer(n)
    \/ \E n \in Sockets, refresh \in BOOLEAN : OnBalanceInterval(n, refresh)
    \/ \E w \in Ids : OnPongTimeout(w)
    \/ \E n \in Sockets, i \in Ids, kind \in {"pong", "result", "error"} :
          OnResponse(n, i, kind)
    \/ \E n \in Sockets, code \in 0..2 : OnSubscribeAck(n, code)
    \/ \E n \in Sockets, i \in Ids : OnServerPing(n, i)
    \/ Close

\* The connection lifecycle: transport events, all timers, the subscription
\* exchange and close(); pings are sent but the exchange leaves them
\* unanswered.
NextLifecycle ==
    \/ \E n \in Sockets : OnOpen(n)
    \/ \E n \in Sockets : AfterSettle(n)
    \/ \E n \in Sockets : OnConnectTimeout(n)
    \/ \E n \in Sockets : OnError(n)
    \/ \E n \in Sockets : OnClose(n)
    \/ \E t \in 1..(MaxSockets + 1) : OnReconnectTimer(t)
    \/ \E n \in Sockets : OnPingInterval(n)
    \/ \E n \in Sockets : OnSubscribeTimer(n)
    \/ \E n \in Sockets, refresh \in BOOLEAN : OnBalanceInterval(n, refresh)
    \/ \E w \in Ids : OnPongTimeout(w)
    \/ \E n \in Sockets, code \in 0..2 : OnSubscribeAck(n, code)
    \/ Close

\* The request correlator: transport events, all timers, pings, their answers,
\* exchange-initiated probes and close(); the exchange leaves subscribe
\* requests unanswered.
NextRequests ==
    \/ \E n \in Sockets : OnOpen(n)
    \/ \E n \in Sockets : AfterSettle(n)
    \/ \E n \in Sockets : OnConnectTimeout(n)
    \/ \E n \in Sockets : OnError(n)
    \/ \E n \in Sockets : OnClose(n)
    \/ \E t \in 1..(MaxSockets + 1) : OnReconnectTimer(t)
    \/ \E n \in Sockets : OnPingInterval(n)
    \/ \E n \in Sockets : OnSubscribeTimer(n)
    \/ \E n \in Sockets, refresh \in BOOLEAN : OnBalanceInterval(n, refresh)
    \/ \E w \in Ids : OnPongTimeout(w)
    \/ \E n \in Sockets, i \in Ids, kind \in {"pong", "result", "error"} :
          OnResponse(n, i, kind)
    \/ \E n \in Sockets, i \in Ids : OnServerPing(n, i)
    \/ Close

\* The latency measurement: one connection, its pings and their answers,
\* with the clock advancing between the events.
NextLatency ==
    \/ Tick
    \/ \E n \in Sockets : OnOpen(n)
    \/ \E n \in Sockets : AfterSettle(n)
    \/ \E n \in Sockets : OnPingInterval(n)
    \/ \E w \in Ids : OnPongTimeout(w)
    \/ \E n \in Sockets, i \in Ids, kind \in {"pong", "result", "error"} :
          OnResponse(n, i, kind)

Spec == Init /\ [][Next]_vars
SpecLifecycle == Init /\ [][NextLifecycle]_vars
SpecRequests == Init /\ [][NextRequests]_vars
SpecLatency == Init /\ [][NextLatency]_vars

\* ------------------------------------------------ the simple variant
\* The ping-only client (src/unnamed/part_002): one socket, no reconnect,
\* no subscription.  It uses the same state; the fields it does not have
\* keep their initial values.

\* sendPing of the simple variant
simple_sendPing(s) ==
    IF ~s.isConnected \/ s.ws = 0 THEN s   \* throws: the call has no effect
    ELSE IF SendThrows(s) THEN s   \* entry set, send throws, entry deleted
    ELSE LET id == s.requestId
         IN [s EXCEPT !.pendingRequests =
                          MapSet(@, id, [waiter |-> id, timestamp |-> s.now]),
                      !.sentAt = [@ EXCEPT ![id] = s.now],
                      !.waiters = [@ EXCEPT ![id] =
                                     [st |-> "pending", frame |-> NoFrame,
                                      val |-> << "none", 0 >>]],
                      !.sentOn = IF Transmits(s)
                                 THEN [@ EXCEPT ![id] = s.ws]
                                 ELSE @,
                      !.timers = Arm(@, "pong", id,
                                     simple_pongTimeoutMs * DelayScale),
                      !.requestId = id + 1]

simple_startPingInterval(s) ==
    [s EXCEPT !.timers = Arm(Arm(@, "firstping", 1, firstPingDelayMs * DelayScale),
                             "ping", 1, simple_pingIntervalMs * DelayScale),
              !.pingInterval = 1]

simple_stopPingInterval(s) ==
    IF s.pingInterval # 0
    THEN [s EXCEPT !.timers = Cancel(@, "ping", s.pingInterval),
                   !.pingInterval = 0]
    ELSE s

simple_rejectAllPendingRequests(s, err) ==
    [s EXCEPT !.waiters = RejectEach(s.waiters, s.pendingRequests,
                                     DOMAIN s.pendingRequests, err),
              !.pendingRequests = EmptyMap]

simple_handleMessage(s, m) ==
    IF m.result = "pong" /\ m.id # 0
    THEN IF m.id \in DOMAIN s.pendingRequests
         THEN LET e == s.pendingRequests[m.id]
              IN [s EXCEPT !.waiters = Settle(@, e.waiter, "resolved", m,
                                              << "latency", s.now - e.timestamp >>),
                           !.pendingRequests = MapDelete(@, m.id)]
         ELSE s
    ELSE IF m.id # 0 /\ m.id \in DOMAIN s.pendingRequests
    THEN LET e == s.pendingRequests[m.id]
         IN [s EXCEPT !.waiters =
                        IF m.error # 0
                        THEN Settle(@, e.waiter, "rejected", m,
                                    << "API Error", m.error >>)
                        ELSE Settle(@, e.waiter, "resolved", m,
                                    << m.result, 0 >>),
                      !.pendingRequests = MapDelete(@, m.id)]
    ELSE s

\* ws.on("open"): up to the await of delay(3000)
simple_OnOpen ==
    /\ sock[1] = "connecting"
    /\ Apply([S EXCEPT !.sock = [@ EXCEPT ![1] = "open"],
                       !.timers = Arm(Cancel(@, "connect", 1), "settle", 1,
                                      simple_settleDelayMs * DelayScale),
                       !.isConnected = TRUE])

\* the continuation of the open handler after delay(3000)
simple_AfterSettle ==
    /\ Due(timers, "settle", 1)
    /\ LET s0 == [S EXCEPT !.timers = Cancel(@, "settle", 1)]
           s1 == simple_startPingInterval(s0)
       IN Apply([s1 EXCEPT !.connProm =
                   [@ EXCEPT ![1] = IF @ = "pending" THEN "resolved" ELSE @]])

\* the untracked 3s timer of startPingInterval fires
simple_OnFirstPing ==
    /\ Due(timers, "firstping", 1)
    /\ AllocatesId(S) => requestId <= MaxRequests
    /\ Apply(simple_sendPing([S EXCEPT !.timers = Cancel(@, "firstping", 1)]))

\* a tick of the 15s setInterval
simple_OnPingInterval ==
    /\ Due(timers, "ping", 1)
    /\ AllocatesId(S) => requestId <= MaxRequests
    /\ LET s0 == [S EXCEPT !.timers = Arm(Cancel(@, "ping", 1), "ping", 1,
                                          simple_pingIntervalMs * DelayScale)]
       IN Apply(IF s0.isConnected /\ s0.ws # 0 THEN simple_sendPing(s0) ELSE s0)

\* the 10s timeout of the ping of waiter w fires
simple_OnPongTimeout(w) ==
    /\ Due(timers, "pong", w)
    /\ LET s0 == [S EXCEPT !.timers = Cancel(@, "pong", w)]
       IN Apply(IF s0.requestId \in DOMAIN s0.pendingRequests
                THEN [s0 EXCEPT !.pendingRequests = MapDelete(@, s0.requestId),
                                !.waiters = Settle(@, w, "rejected", NoFrame,
                                                   << "PONG timeout", s0.requestId >>)]
                ELSE s0)

\* the 10s connectionTimeout fires: the connect() promise is rejected
simple_OnConnectTimeout ==
    /\ Due(timers, "connect", 1)
    /\ Apply([S EXCEPT !.timers = Cancel(@, "connect", 1),
                       !.connProm = [@ EXCEPT ![1] = IF @ = "pending"
                                                     THEN "rejected" ELSE @]])

\* ws.on("error")
simple_OnError ==
    /\ sock[1] \in {"connecting", "open", "closing"}
    /\ Apply([S EXCEPT !.sock = [@ EXCEPT ![1] = "errored"],
                       !.timers = Cancel(@, "connect", 1),
                       !.isConnected = FALSE,
                       !.connProm = [@ EXCEPT ![1] = IF @ = "pending"
                                                     THEN "rejected" ELSE @]])

\* ws.on("close"): the handler of connect(), then the resolver of close()
simple_OnClose ==
    /\ sock[1] \in {"open", "closing", "errored"}
    /\ LET s0 == [S EXCEPT !.sock = [@ EXCEPT ![1] = "closed"],
                           !.timers = Cancel(@, "connect", 1),
                           !.sentOn = [i \in Ids |-> 0],
                           !.isConnected = FALSE]
           s1 == simple_stopPingInterval(s0)
           s2 == simple_rejectAllPendingRequests(s1, "Connection closed")
       IN Apply(IF s2.closeWait = 1
                THEN [s2 EXCEPT !.closeResolved = TRUE]
                ELSE s2)

\* ws.on("message"): the exchange answers a transmitted ping
simple_OnResponse(i, kind) ==
    /\ sock[1] \in {"open", "closing"}
    /\ sentOn[i] = 1
    /\ LET m == CASE kind = "pong" -> Pong(i)
                  [] kind = "result" -> Result(i)
                  [] OTHER -> ApiError(i)
       IN Apply(simple_handleMessage([S EXCEPT !.sentOn = [@ EXCEPT ![i] = 0]], m))

\* close(), called once by the owner of the session
simple_Close ==
    /\ ~closeCalled
    /\ LET s1 == simple_stopPingInterval(S)
           s2 == simple_rejectAllPendingRequests(s1, "Connection closed by user")
       IN Apply([s2 EXCEPT !.closeCalled = TRUE,
                           !.doneBeforeClose =
                               {i \in Ids : S.waiters[i].st \in {"resolved", "rejected"}},
                           !.closeWait = 1,
                           !.sock = [@ EXCEPT ![1] =
                                       IF @ \in {"connecting", "open"}
                                       THEN "closing" ELSE @]])

NextSimple ==
    \/ Tick
    \/ simple_OnOpen
    \/ simple_AfterSettle
    \/ simple_OnFirstPing
    \/ simple_OnPingInterval
    \/ \E w \in Ids : simple_OnPongTimeout(w)
    \/ simple_OnConnectTimeout
    \/ simple_OnError
    \/ simple_OnClose
    \/ \E i \in Ids, kind \in {"pong", "result", "error"} : simple_OnResponse(i, kind)
    \/ simple_Close

SpecSimple == Init /\ [][NextSimple]_vars

\* Both variants side by side: a session is an object of one of the two
\* classes, which its constructor (origin of socket 1) tells apart, and it
\* runs the handlers of its own class only.
InitVariants ==
    /\ ws = 1 /\ nsock = 1
    /\ sock = [n \in Sockets |-> IF n = 1 THEN "connecting" ELSE "none"]
    /\ timers = << [kind |-> "connect", id |-> 1,
                    d |-> connectTimeoutMs * DelayScale] >>
    /\ connProm = [n \in Sockets |-> IF n = 1 THEN "pending" ELSE "none"]
    /\ \E c \in {"ctor", "simple"} :
          origin = [n \in Sockets |-> IF n = 1 THEN c ELSE "none"]
    /\ isConnected = FALSE /\ isAuthenticated = FALSE
    /\ isReconnecting = FALSE /\ reconnectAttempts = 0
    /\ reconnectInterval = 0 /\ nTimers = 0
    /\ pingInterval = 0 /\ balanceInterval = 0
    /\ requestId = 1 /\ pendingRequests = EmptyMap
    /\ waiters = [i \in Ids |-> NoWaiter]
    /\ sentOn = [i \in Ids |-> 0]
    /\ subs = [n \in Sockets |-> 0]
    /\ pongs = << >> /\ now = 0 /\ sentAt = [i \in Ids |-> 0]
    /\ closeCalled = FALSE /\ closeWait = 0 /\ closeResolved = FALSE
    /\ doneBeforeClose = {}
    /\ authFailed = FALSE /\ lastDelay = 0 /\ failures = 0 /\ schedules = 0
    /\ usedBefore = -1

BalanceAware == origin[1] = "ctor"
SimpleVariant == origin[1] = "simple"

NextVariants ==
    \/ BalanceAware /\ \E n \in Sockets : OnOpen(n)
    \/ BalanceAware /\ \E n \in Sockets : AfterSettle(n)
    \/ BalanceAware /\ \E n \in Sockets : OnConnectTimeout(n)
    \/ BalanceAware /\ \E n \in Sockets : OnError(n)
    \/ BalanceAware /\ \E n \in Sockets : OnClose(n)
    \/ BalanceAware /\ \E t \in 1..(MaxSockets + 1) : OnReconnectTimer(t)
    \/ BalanceAware /\ \E n \in Sockets : OnPingInterval(n)
    \/ BalanceAware /\ \E n \in Sockets : OnSubscribeTimer(n)
    \/ BalanceAware /\ \E n \in Sockets, refresh \in BOOLEAN :
                         OnBalanceInterval(n, refresh)
    \/ BalanceAware /\ \E w \in Ids : OnPongTimeout(w)
    \/ BalanceAware /\ \E n \in Sockets, i \in Ids,
                           kind \in {"pong", "result", "error"} :
                         OnResponse(n, i, kind)
    \/ BalanceAware /\ \E n \in Sockets, i \in Ids : OnServerPing(n, i)
    \/ BalanceAware /\ Close
    \/ SimpleVariant /\ Tick
    \/ SimpleVariant /\ simple_OnOpen
    \/ SimpleVariant /\ simple_AfterSettle
    \/ SimpleVariant /\ simple_OnFirstPing
    \/ SimpleVariant /\ simple_OnPingInterval
    \/ SimpleVariant /\ \E w \in Ids : simple_OnPongTimeout(w)
    \/ SimpleVariant /\ simple_OnConnectTimeout
    \/ SimpleVariant /\ simple_OnError
    \/ SimpleVariant /\ simple_OnClose
    \/ SimpleVariant /\ \E i \in Ids, kind \in {"pong", "result", "error"} :
                          simple_OnResponse(i, kind)
    \/ SimpleVariant /\ simple_Close

SpecVariants == InitVariants /\ [][NextVariants]_vars

\* ------------------------------------------------------- claim formulas

LiveSocket == \E n \in Sockets : sock[n] \in {"connecting", "open"}
OpenStep == \E n \in Sockets : sock[n] = "connecting" /\ sock'[n] = "open"
ScheduleStep == nTimers' > nTimers
ConnectStep == nsock' > nsock

\* C1 (as claimed): automatic recovery.  While close() has not been called, no
\* authentication failure was acknowledged and fewer than 10 attempts are
\* used, a lost connection is always on its way back: some socket is
\* connecting or open, or a backoff timer is armed that will open one.
C1_RecoveryUnderWay ==
    (~closeCalled /\ ~authFailed /\ reconnectAttempts < maxReconnectAttempts
        /\ ~LiveSocket)
    => rTimers # {}

\* C2 (as claimed): after n consecutive failed connection attempts (n < 10)
\* n reconnects have been scheduled, the attempt counter was incremented
\* before each and the last delay is min(1000 * 1.5^(n-1), 30000) ms.
C2_EveryFailureRescheduled ==
    (~closeCalled /\ ~authFailed /\ failures > 0
        /\ failures < maxReconnectAttempts)
    => /\ schedules >= failures
       /\ reconnectAttempts = schedules
       /\ lastDelay = Backoff(schedules)

C4_OpenResetsBackoff ==
    [][ /\ OpenStep => reconnectAttempts' = 0
        /\ (ScheduleStep /\ usedBefore' # -1 /\ schedules' = 1)
             => /\ reconnectAttempts' = 1
                /\ lastDelay' = reconnectDelay * DelayScale ]_vars

\* C4 witness: an open happened with attempts in use, and the first reconnect
\* after it is scheduled, with delay 1000 ms.
C4_Witness ==
    /\ usedBefore > 0 /\ schedules = 1 /\ rTimers # {}
    /\ lastDelay = reconnectDelay * DelayScale

\* C5 (as claimed): once a code-1 subscribe ack has been handled, no reconnect
\* timer is armed and no socket is opened any more.
C5_NoReconnectAfterAuthFailure ==
    [][authFailed => ~ScheduleStep /\ ~ConnectStep]_vars

\* C6 (as claimed): in the step in which the promise of close() resolves, the
\* pending-request table is empty and every request that was pending when
\* close() was called, or was created after that, has been rejected.
C6_CloseRejectsAllPending ==
    [][(~closeResolved /\ closeResolved') =>
         /\ DOMAIN pendingRequests' = {}
         /\ \A i \in Ids \ doneBeforeClose' :
               waiters'[i].st \in {"none", "rejected"} ]_vars

\* C7 (as claimed): a close() that has not resolved yet waits for a socket
\* whose close confirmation is still to come, so that it resolves once the
\* transport delivers it.
C7_CloseWaitsForComingConfirmation ==
    (closeCalled /\ ~closeResolved) => sock[closeWait] # "closed"

\* C8 (as claimed): once close() has been called, no reconnect is scheduled
\* and no socket is opened.
C8_NoReconnectAfterClose ==
    [][closeCalled => ~ScheduleStep /\ ~ConnectStep]_vars

\* C9 (as claimed): once close() has been called, no step arms a ping
\* interval, balance interval, initial-subscription timer or ping timeout, and
\* no step transmits a frame.
C9_NoTimerAfterClose ==
    [][closeCalled =>
         /\ pingTimers' \subseteq pingTimers
         /\ balTimers' \subseteq balTimers
         /\ subTimers' \subseteq subTimers
         /\ pongTimers' \subseteq pongTimers
         /\ \A i \in Ids : sentOn[i] = 0 => sentOn'[i] = 0
         /\ \A n \in Sockets : subs'[n] <= subs[n] ]_vars

\* C10: a waiter that a frame completed was completed by the frame that
\* carries its own id, with what that frame says: the latency for a pong, the
\* API error of an error frame, the result otherwise.
FrameOutcome(m) ==
    IF m.result = "pong" THEN << "resolved", << "latency", 0 >> >>
    ELSE IF m.error # 0 THEN << "rejected", << "API Error", m.error >> >>
    ELSE << "resolved", << m.result, 0 >> >>

C10_MatchedById ==
    \A i \in Ids :
        waiters[i].frame # NoFrame =>
            /\ waiters[i].frame.id = i
            /\ << waiters[i].st, waiters[i].val >> = FrameOutcome(waiters[i].frame)

\* C10 witness: two requests were pending together and the later one was
\* answered first.
C10_Witness ==
    \E i, j \in Ids :
        /\ i < j /\ i \in DOMAIN pendingRequests
        /\ waiters[j].frame # NoFrame /\ waiters[j].frame.id = j

\* C11 (as claimed): no request is left pending for ever while the session
\* stays connected: once the 10 s timeout of a request has fired on a session
\* that is still connected, the request is no longer in the pending table.
C11_RemovedOnceTimedOut ==
    \A i \in Ids :
        (waiters[i].st # "none" /\ i \notin pongTimers
            /\ isConnected /\ sock[ws] = "open")
        => i \notin DOMAIN pendingRequests

PongTimeoutStep(w) == w \in pongTimers /\ w \notin pongTimers'

\* C12 (as claimed): when the 10 s timeout of a ping that is still pending
\* fires, the ping is removed from the pending table and its waiter is
\* rejected with a timeout failure naming its id, and no other request is
\* removed or rejected.
C12_TimeoutRejectsItsOwnRequest ==
    [][\A w \in Ids :
         (PongTimeoutStep(w) /\ w \in DOMAIN pendingRequests) =>
            /\ w \notin DOMAIN pendingRequests'
            /\ waiters'[w] = [st |-> "rejected", frame |-> NoFrame,
                              val |-> << "PONG timeout", w >>]
            /\ \A j \in Ids \ {w} :
                 /\ waiters'[j] = waiters[j]
                 /\ (j \in DOMAIN pendingRequests') = (j \in DOMAIN pendingRequests)
      ]_vars

\* C13: a ping sent at clock value T whose pong is handled at clock value
\* T + L resolves with latency exactly L, and L is not negative.
C13_LatencyIsElapsedTime ==
    [][\A i \in Ids :
         (waiters[i].st = "pending" /\ waiters'[i].st = "resolved"
             /\ waiters'[i].frame.result = "pong")
         => /\ waiters'[i].val = << "latency", now' - sentAt[i] >>
            /\ now' - sentAt[i] >= 0 ]_vars

\* C13 witness: two pings sent at different clock values were pending
\* together, and the earlier one was answered, with a positive latency.
C13_Witness ==
    \E i, j \in Ids :
        /\ i < j /\ j \in DOMAIN pendingRequests /\ sentAt[i] < sentAt[j]
        /\ waiters[i].st = "resolved" /\ waiters[i].frame.result = "pong"
        /\ waiters[i].val[2] > 0

\* C14 (as claimed): at every instant at most one socket of the session is
\* connecting or open.
C14_AtMostOneSocket ==
    Cardinality({n \in Sockets : sock[n] \in {"connecting", "open"}}) <= 1

\* C15 (as claimed): at every instant at most one ping interval timer and at
\* most one balance-refresh interval timer is running.
C15_AtMostOneIntervalOfEachKind ==
    Cardinality(pingTimers) <= 1 /\ Cardinality(balTimers) <= 1

\* waitForConnection() awaits this.connectionPromise, the promise of the
\* constructor's connect(): a waiting caller resumes when it is resolved
WaitForConnectionResolves == connProm[1] = "pending" /\ connProm'[1] = "resolved"

\* C16 (as claimed): waitForConnection() opens no socket, and at the moment it
\* resolves the session is connected.
C16_ReadyWhenResolved ==
    [][WaitForConnectionResolves => isConnected']_vars

\* C17 (as claimed): a server.ping frame with id i that arrives on the open
\* socket of a connected session is answered by exactly one frame
\* {id: i, result: "pong"} and completes no pending waiter, whatever i is.
C17_ProbeAnsweredOnly ==
    [][\A n \in Sockets, i \in Ids :
         (OnServerPing(n, i) /\ isConnected /\ ws = n /\ sock[n] = "open")
         => /\ pongs' = << Pong(i) >>
            /\ waiters' = waiters
            /\ pendingRequests' = pendingRequests ]_vars

\* a transport error or close event of socket n is handled
TransportLossStep(n) == sock'[n] # sock[n] /\ sock'[n] \in {"errored", "closed"}

\* C18 (as claimed): after the handling of a transport loss, and after the
\* handling of a subscribe ack with error code 1, every request that was
\* pending has been rejected and the pending table is empty.
C18_SessionFailuresRejectPending ==
    [][((\E n \in Sockets : TransportLossStep(n))
          \/ (\E n \in Sockets : OnSubscribeAck(n, 1)))
       => /\ DOMAIN pendingRequests' = {}
          /\ \A i \in DOMAIN pendingRequests : waiters'[i].st = "rejected" ]_vars

\* C19 (as claimed): the handling of a close or error event of the session's
\* open socket leaves the session disconnected and unauthenticated, with no
\* interval timer running and both handles null, every pending request
\* rejected with the connection-lost error and the table empty, and - unless
\* an authentication failure was recorded (or close() was called) - with
\* exactly one reconnect scheduled (read generously: it schedules one, or
\* exactly one is pending after it).
C19_DisconnectionHandled ==
    [][\A n \in Sockets :
         (TransportLossStep(n) /\ sock[n] = "open" /\ ws = n)
         => /\ ~isConnected' /\ ~isAuthenticated'
            /\ pingTimers' = {} /\ balTimers' = {}
            /\ pingInterval' = 0 /\ balanceInterval' = 0
            /\ DOMAIN pendingRequests' = {}
            /\ \A i \in DOMAIN pendingRequests :
                 /\ waiters'[i].st = "rejected"
                 /\ waiters'[i].val = << "Connection lost", 0 >>
            /\ (~authFailed /\ ~closeCalled)
                 => (nTimers' = nTimers + 1 \/ Cardinality(rTimers') = 1) ]_vars

\* C20: a subscribe ack without error makes the session authenticated, one
\* with an error makes it unauthenticated, and one with error code 1 also
\* cancels the reconnect timer the session holds and records the fatal state
\* (reconnecting = false, attempts = max); nothing else changes, the socket
\* included.
C20_SubscribeAckHandled ==
    [][\A n \in Sockets, code \in 0..2 :
         OnSubscribeAck(n, code) =>
            /\ isAuthenticated' = (code = 0)
            /\ code = 1 => /\ reconnectInterval' = 0
                           /\ timers' = Cancel(timers, "backoff", reconnectInterval)
                           /\ ~isReconnecting'
                           /\ reconnectAttempts' = maxReconnectAttempts
            /\ code # 1 => UNCHANGED << reconnectInterval, timers,
                                        isReconnecting, reconnectAttempts >>
            /\ UNCHANGED << ws, sock, nsock, connProm, isConnected,
                            pingInterval, balanceInterval, requestId,
                            pendingRequests, waiters, pongs,
                            closeCalled, closeResolved >> ]_vars

\* C20 witness: a code-1 ack has been handled and it cancelled a reconnect
\* timer that was pending (a timer was created that neither fired nor is
\* armed any more, and close() was not called).
C20_Witness ==
    /\ authFailed /\ ~closeCalled
    /\ ~isAuthenticated /\ ~isReconnecting
    /\ reconnectAttempts = maxReconnectAttempts /\ reconnectInterval = 0
    /\ nTimers - (nsock - 1) - Cardinality(rTimers) >= 1

\* a ping or a subscribe request is transmitted on socket n in this step
TransmitsOn(n) ==
    \/ \E i \in Ids : sentOn[i] # n /\ sentOn'[i] = n
    \/ subs'[n] > subs[n]

\* C21 (as claimed): no ping and no subscribe request is transmitted on a
\* socket, and no keepalive timer is armed for it, before the settle delay
\* that started at that socket's own open event has elapsed.
C21_NothingBeforeOwnSettle ==
    [][\A n \in Sockets :
         /\ TransmitsOn(n) => n \notin settle'
         /\ (n \in (pingTimers' \ pingTimers) \cup (balTimers' \ balTimers)
                   \cup (subTimers' \ subTimers))
              => n \notin settle' ]_vars

\* (claim C22) what a per-request failure of request i may not touch
SessionUntouchedBut(i) ==
    /\ UNCHANGED << ws, sock, nsock, connProm, isConnected, isAuthenticated,
                    isReconnecting, reconnectAttempts, reconnectInterval,
                    nTimers, pingInterval, balanceInterval, requestId,
                    closeCalled, closeResolved >>
    /\ \A j \in Ids \ {i} :
         /\ waiters'[j] = waiters[j]
         /\ (j \in DOMAIN pendingRequests') = (j \in DOMAIN pendingRequests)
         /\ j \in DOMAIN pendingRequests => pendingRequests'[j] = pendingRequests[j]

\* C22: the handling of an error response for a pending id, and the firing of
\* a ping timeout, change nothing but that request's entry and waiter: the
\* session flags, the attempt counter, the socket, the timers (but for the
\* timeout that fired) and every other entry stay as they are, and no
\* reconnect is scheduled.
C22_RequestFailuresAreLocal ==
    [][/\ \A n \in Sockets, i \in Ids :
            (OnResponse(n, i, "error") /\ i \in DOMAIN pendingRequests)
            => SessionUntouchedBut(i) /\ timers' = timers
       /\ \A w \in Ids :
            OnPongTimeout(w)
            => SessionUntouchedBut(w) /\ timers' = Cancel(timers, "pong", w)
      ]_vars

\* C22 witness: an error response has rejected a request while another one
\* was pending on a connected session.
C22_Witness ==
    \E i, j \in Ids :
        /\ i # j /\ j \in DOMAIN pendingRequests /\ isConnected
        /\ waiters[i].st = "rejected" /\ waiters[i].val[1] = "API Error"

\* C23: requestId starts at 1 and never decreases; a ping that is
\* transmitted carries the current requestId, which has never been
\* transmitted before, and requestId is incremented in the same step: the
\* ids on the wire grow strictly, also across reconnects.
C23_IdsGrowStrictly ==
    /\ requestId = 1
    /\ [][/\ requestId' >= requestId
          /\ \A i \in Ids :
               (sentOn'[i] # 0 /\ sentOn'[i] # sentOn[i])
               => /\ sentOn[i] = 0
                  /\ i = requestId
                  /\ requestId' = i + 1
                  /\ \A j \in Ids : sentOn[j] # 0 => j < i ]_vars

\* C23 witness: after a reconnect the second ping went out on the second
\* socket with the next id, the first one having gone out on the first.
C23_Witness ==
    sentOn[1] = 1 /\ sentOn[2] = 2 /\ requestId = 3

\* C24 (as claimed): in the simple variant at most one ping is pending at
\* any instant; in particular a ping whose 10 s timeout has passed is no
\* longer in the table when a later ping is in it.
C24_OnePingOutstanding ==
    \A i, j \in Ids :
        (i < j /\ i \in DOMAIN pendingRequests /\ j \in DOMAIN pendingRequests)
        => i \in pongTimers

\* the connect guard of socket n fires in this step
GuardFires(n) == OnConnectTimeout(n)
\* socket n reports open, error or close in this step
Reports(n) == sock'[n] # sock[n] /\ sock'[n] \in {"open", "errored", "closed"}

C26_NothingPendingWhileDisconnected ==
    ~isConnected => DOMAIN pendingRequests = {}

\* C26 witness: a disconnect found a ping pending and rejected it; the
\* session is disconnected and the table is empty.
C26_Witness ==
    /\ ~isConnected /\ DOMAIN pendingRequests = {}
    /\ \E i \in Ids : /\ waiters[i].st = "rejected"
                      /\ waiters[i].val = << "Connection lost", 0 >>

\* the close event of a socket that has already reported an error
CloseAfterError(n) == sock[n] = "errored" /\ OnClose(n)

\* C27 (as claimed): handleDisconnection is idempotent.  The close of a
\* socket whose error was already handled increments the attempt counter
\* no further, arms no further reconnect timer, rejects no waiter and
\* leaves isConnected as it is.
C27_DisconnectionIdempotent ==
    [][\A n \in Sockets :
         CloseAfterError(n)
         => /\ UNCHANGED << isConnected, reconnectAttempts, nTimers, waiters >>
            /\ rTimers' = rTimers ]_vars

\* C28 (as claimed): at most one reconnect backoff timer is armed at any
\* instant, and isReconnecting is true whenever one is armed.
C28_OneBackoffTimer ==
    /\ Cardinality(rTimers) <= 1
    /\ rTimers # {} => isReconnecting

\* C29 (as claimed): the initial subscription timer of a connection
\* transmits on the socket whose open handler armed it and on no other.
C29_SubscribeOnOwnSocket ==
    [][\A n \in Sockets :
         OnSubscribeTimer(n) => \A m \in Sockets \ {n} : subs'[m] = subs[m] ]_vars

\* C30 (as claimed): isAuthenticated implies isConnected.
C30_AuthenticatedImpliesConnected ==
    isAuthenticated => isConnected

\* C31: between two handler executions the next id to allocate, requestId,
\* is not a key of the pending-request table, in both variants.
C31_NextIdNotPending ==
    requestId \notin DOMAIN pendingRequests

\* C31 witness: the simple variant has sent two pings, both are pending and
\* the counter has moved past them.
C31_Witness ==
    /\ origin[1] = "simple"
    /\ requestId = 3 /\ DOMAIN pendingRequests = {1, 2}

\* the same in the balance-aware variant
C31_WitnessBalanceAware ==
    /\ origin[1] = "ctor"
    /\ requestId = 3 /\ DOMAIN pendingRequests = {1, 2}

\* C32: the reconnect attempt counter stays within 0..10 in every reachable
\* state.
C32_AttemptsWithinBounds ==
    reconnectAttempts \in 0..maxReconnectAttempts

\* C32 witness: stopReconnection has put the counter at 10 and a disconnect
\* that came afterwards found scheduleReconnect barred by it.
C32_Witness ==
    /\ reconnectAttempts = maxReconnectAttempts
    /\ ~isReconnecting /\ ~isConnected
    /\ \E n \in Sockets : sock[n] = "closed"

====
